---- MODULE Spec2Model ----
(***************************************************************************)
(* PoolFlow: DynamicPool (open pool), StaticPool (closed pool) and          *)
(* ServerPool (the gateway that submits received lines to a DynamicPool).  *)
(*                                                                         *)
(* The pool is a set of threads working on shared, unlocked state: the     *)
(* caller's thread (start, submit, end), the pool thread (run: the         *)
(* admission loop), the check_status thread (the completion monitor), one  *)
(* thread per job, and the launch_pre_processing / launch_post_processing  *)
(* threads.  Every step below is one statement (or one read or one write   *)
(* of a shared attribute) of one of these threads; time.sleep is no        *)
(* synchronisation and is not a step.                                      *)
(***************************************************************************)
EXTENDS Integers, Sequences, FiniteSets, TLC

\* ---------------------------------------------------------------- bounds
\* the most jobs an open pool is given, and the largest batch of a closed pool
MaxJobs == 1
MaxBatch == 2

\* the most descriptor lines a gateway receives
MaxLines == 2

Max(a, b) == IF a > b THEN a ELSE b

\* the ids a pool hands out: enough for MaxJobs, MaxBatch and the pools of
\* three jobs below
Ids == 1..Max(Max(MaxJobs, MaxBatch), 3)

\* override_max_value, and the costs of the jobs: an open pool of 12 or 20
\* units given jobs of 8 or 12, a closed pool of 5, 6 or 11 units with jobs of 5
DynBudgets == {12, 20}
DynCosts == {8, 12}
StaticCosts == {5}
StaticBudgets == {5, 6, 11}

VARIABLES
    kind,          \* "dynamic" (DynamicPool) or "static" (StaticPool)
    caller,        \* what the caller's program submits: how many jobs, which
                   \* costs, with actions or without
    init_memory,   \* self.init_memory
    memory,        \* self.memory
    pool,          \* self.pool: ids of the pending Calculations, in order
    launched,      \* self.launched
    is_over,       \* self.is_over
    count,         \* self.count
    end_date,      \* self.end_date has been stamped
    calc,          \* the Calculation objects, by id
    upc,           \* the caller's thread: where it is in start/submit/end
    eidx,          \* end(): position of the join comprehension in launched
    rpc,           \* the pool thread (run)
    ridx,          \* run: position of the current for-loop's iterator
    rcur,          \* run: the loop variable calc
    rtmp,          \* run: self.memory as loaded by __allocate__
    spc,           \* the check_status thread
    sidx,          \* check_status: position of the for-loop's iterator
    scur,          \* check_status: the loop variable calc
    stmp,          \* check_status: self.memory as loaded by __release__
    released,      \* history: how often __release__ stored for each job
    seen,          \* history: jobs the current scan of self.pool has examined
    order,         \* history: the ids of the jobs, in the order of submission
    shown,         \* what display_status printed last
    data,          \* ServerPool: self.server.data, the buffered descriptors
    gpc,           \* ServerPool: the gateway thread (ServerPool.run)
    gidx,          \* ServerPool.run: position of the for-loop's iterator
    stale,         \* run: the list its for-loop iterates is no longer self.pool
    oldpool,       \* run: that list, as it was when self.pool was rebound
    discarded      \* history: the jobs that were pending when empty() was called

vars == <<kind, caller, init_memory, memory, pool, launched, is_over, count, end_date, calc,
          upc, eidx, rpc, ridx, rcur, rtmp, spc, sidx, scur, stmp, released, seen,
          order, shown, data, gpc, gidx, stale, oldpool, discarded>>

userVars == <<upc, eidx>>
runVars == <<rpc, ridx, rcur, rtmp, seen>>
statusVars == <<spc, sidx, scur, stmp>>
gatewayVars == <<data, gpc, gidx>>
emptyVars == <<stale, oldpool, discarded>>
auxVars == <<order, shown, gatewayVars, emptyVars>>

\* ------------------------------------------------------------ Calculation
\* Calculation.__init__: the flags of a fresh job.  thread is "new" (created,
\* not started), "alive" or "finished"; target is "target" (the caller's
\* function) or "RawExternalCmd"; pre_flight / post_flight say that a
\* launch_pre_processing / launch_post_processing thread has been started
\* and has not yet set its flag.
Calculation(c, pre, post) ==
    [target |-> "target",
     cost |-> c, counted |-> FALSE, isrunning |-> FALSE, isdead |-> FALSE,
     pre_processing |-> pre, ispreprocessed |-> FALSE,
     post_processing |-> post, ispostprocessed |-> FALSE,
     thread |-> "new",
     pre_flight |-> FALSE, post_flight |-> FALSE]

NoCalc == Calculation(0, FALSE, FALSE)

Min(a, b) == IF a < b THEN a ELSE b

\* Thread.is_alive()
is_alive(j) == calc[j].thread = "alive"

\* list.remove(x): drops the first occurrence of x
RECURSIVE Remove(_, _)
Remove(s, x) ==
    IF s = <<>> THEN <<>>
    ELSE IF Head(s) = x THEN Tail(s)
    ELSE <<Head(s)>> \o Remove(Tail(s), x)

InSeq(s, x) == \E i \in 1..Len(s) : s[i] = x

\* the runnings and deads properties
runnings == {j \in Ids : InSeq(launched, j) /\ calc[j].isrunning}
deads == {j \in Ids : InSeq(launched, j) /\ calc[j].isdead}

\* __allocate__ / allocate and __release__ / release: the value stored, from
\* the value of self.memory that was loaded
Allocate(m, c) == m - c
Release(m, c) == m + c

\* (mutant) the admission test with >= in place of >
CanAdmitAtEqual(j) ==
    IF kind = "dynamic"
    THEN memory >= calc[j].cost /\ ~calc[j].isrunning /\ ~calc[j].isdead
         /\ calc[j].ispreprocessed
    ELSE memory >= calc[j].cost /\ calc[j].ispreprocessed

\* the admission test of run (dynamic_pool.py:177, static_pool.py:149)
CanAdmit(j) ==
    IF kind = "dynamic"
    THEN memory > calc[j].cost /\ ~calc[j].isrunning /\ ~calc[j].isdead
         /\ calc[j].ispreprocessed
    ELSE memory > calc[j].cost /\ calc[j].ispreprocessed

\* (mutant) the completion test without its guard on counted
IsFinishedUnguarded(j) ==
    IF kind = "dynamic"
    THEN ~is_alive(j)
    ELSE ~is_alive(j) /\ calc[j].isrunning

\* the completion test of check_status (dynamic_pool.py:242, static_pool.py:213)
IsFinished(j) ==
    IF kind = "dynamic"
    THEN ~is_alive(j) /\ ~calc[j].counted
    ELSE ~is_alive(j) /\ ~calc[j].counted /\ calc[j].isrunning

\* (mutant) the self-termination test with a dead count that is never met
BatchDoneOffByOne == pool = <<>> /\ runnings = {} /\ Cardinality(deads) = count + 1

\* the self-termination test of StaticPool.check_status (static_pool.py:219)
BatchDone == pool = <<>> /\ runnings = {} /\ Cardinality(deads) = count

\* the post-processing test of run (dynamic_pool.py:187, static_pool.py:159)
NeedsPost(j) == ~calc[j].isrunning /\ calc[j].isdead /\ ~calc[j].ispostprocessed

\* the wait loop of end (dynamic_pool.py:166, static_pool.py:275)
EndMustWait == pool # <<>> \/ runnings # {}

\* display_status: the counts and the memory line it prints
Snapshot ==
    [running |-> Cardinality(runnings), queue |-> Len(pool),
     dead |-> Cardinality(deads), memory |-> memory, total |-> init_memory]

\* nothing printed yet
NoSnapshot == [running |-> 0, queue |-> 0, dead |-> 0, memory |-> 0, total |-> 0]

\* ------------------------------------------------------------------ Init
InitCommon ==
    /\ memory = init_memory
    /\ launched = <<>>
    /\ is_over = FALSE
    /\ end_date = FALSE
    /\ upc = "start"
    /\ eidx = 0
    /\ rpc = "new"
    /\ ridx = 0
    /\ rcur = 0
    /\ rtmp = 0
    /\ spc = "new"
    /\ sidx = 0
    /\ scur = 0
    /\ stmp = 0
    /\ released = [j \in Ids |-> 0]
    /\ seen = {}
    /\ shown = NoSnapshot
    /\ data = <<>>
    /\ gidx = 0
    /\ stale = FALSE
    /\ oldpool = <<>>
    /\ discarded = {}

\* the callers of an open pool: any jobs up to MaxJobs, with or without pre-
\* and post-processing actions; and the caller of three plain jobs of cost 8
AnyJobs == [jobs |-> MaxJobs, costs |-> DynCosts, actions |-> BOOLEAN]
ThreeJobs == [jobs |-> 3, costs |-> {8}, actions |-> {FALSE}]
NoJobs == [jobs |-> 0, costs |-> {}, actions |-> {}]

\* DynamicPool.__init__
InitDynamic ==
    /\ kind = "dynamic"
    /\ init_memory \in DynBudgets
    /\ pool = <<>>
    /\ count = 1
    /\ order = <<>>
    /\ gpc = "off"
    /\ calc = [j \in Ids |-> NoCalc]
    /\ InitCommon

\* the open pool of 20 units that is given three plain jobs of cost 8
InitThreeJobs == InitDynamic /\ init_memory = 20 /\ caller = ThreeJobs

\* the open pool of 20 units whose caller submits jobs that all have a pre-
\* and a post-processing action and cost less than the budget
JobsWithActions == [jobs |-> MaxJobs, costs |-> DynCosts, actions |-> {TRUE}]
InitOpenPool == InitDynamic /\ init_memory = 20 /\ caller = JobsWithActions

\* StaticPool.__init__ with a batch of n argument-tuples: the batch becomes
\* the pending queue, ids 1..len(args)
InitStatic(n) ==
    /\ kind = "static"
    /\ caller = NoJobs
    /\ init_memory \in StaticBudgets
    /\ count = n
    /\ pool = [i \in 1..n |-> i]
    /\ order = [i \in 1..n |-> i]
    /\ gpc = "off"
    /\ \E c \in StaticCosts :
          calc = [j \in Ids |-> IF j <= n THEN Calculation(c, FALSE, FALSE)
                                ELSE NoCalc]
    /\ InitCommon

\* the closed pool that is constructed with a batch of three
InitBatchOfThree == InitStatic(3)

\* a pool of either class, constructed and not yet started
Init == (InitDynamic /\ caller = AnyJobs) \/ (\E n \in 0..MaxBatch : InitStatic(n))

\* ------------------------------------------------------- the caller's thread
\* Thread.start() of the pool: run begins in its own thread
Start ==
    /\ upc = "start"
    /\ upc' = "started"
    /\ rpc' = "run"
    /\ UNCHANGED <<auxVars, kind, caller, init_memory, memory, pool, launched, is_over, count, end_date,
                   calc, eidx, ridx, rcur, rtmp, seen, statusVars, released>>

\* (mutant) a counter that submit does not advance
NextCountStuck(n) == n

\* submit: self.count += 1
NextCount(n) == n + 1

\* self.external: the pool of a ServerPool is built with external=True
external == gpc # "off"

\* the body of DynamicPool.submit: a Calculation with the id self.count is
\* appended to self.pool (its target RawExternalCmd when self.external), and
\* self.count advances
Submitting(c, pre, post) ==
    /\ calc' = [calc EXCEPT ![count] =
                   [Calculation(c, pre, post) EXCEPT
                       !.target = IF external THEN "RawExternalCmd" ELSE "target"]]
    /\ pool' = Append(pool, count)
    /\ order' = Append(order, count)
    /\ count' = NextCount(count)

\* DynamicPool.submit, called between start() and end()
submit(c, pre, post) ==
    /\ kind = "dynamic"
    /\ upc = "started"
    /\ count <= caller.jobs
    /\ c \in caller.costs
    /\ pre \in caller.actions
    /\ post \in caller.actions
    /\ Submitting(c, pre, post)
    /\ UNCHANGED <<shown, gatewayVars, emptyVars, kind, caller, init_memory, memory, launched, is_over,
                   end_date, userVars, runVars, statusVars, released>>

\* end(now=False) is called
end_call ==
    /\ upc = "started"
    /\ upc' = "end_while"
    /\ UNCHANGED <<auxVars, kind, caller, init_memory, memory, pool, launched, is_over, count, end_date,
                   calc, eidx, runVars, statusVars, released>>

\* end: while self.pool or self.runnings: sleep -- falls through when both are empty
end_while ==
    /\ upc = "end_while"
    /\ ~EndMustWait
    /\ upc' = "end_is_over"
    /\ UNCHANGED <<auxVars, kind, caller, init_memory, memory, pool, launched, is_over, count, end_date,
                   calc, eidx, runVars, statusVars, released>>

\* end: self.is_over = True
end_is_over ==
    /\ upc = "end_is_over"
    /\ is_over' = TRUE
    /\ upc' = "end_join"
    /\ eidx' = 0
    /\ UNCHANGED <<auxVars, kind, caller, init_memory, memory, pool, launched, count, end_date,
                   calc, runVars, statusVars, released>>

\* end: [calc.thread.join() for calc in self.launched] -- join raises
\* RuntimeError on a thread that was never started, blocks on a live one
end_join ==
    /\ upc = "end_join"
    /\ IF eidx < Len(launched)
       THEN LET j == launched[eidx + 1] IN
            /\ calc[j].thread # "alive"
            /\ IF calc[j].thread = "new"
               THEN upc' = "end_raised" /\ eidx' = eidx
               ELSE upc' = upc /\ eidx' = eidx + 1
       ELSE upc' = "end_join_self" /\ eidx' = eidx
    /\ UNCHANGED <<auxVars, kind, caller, init_memory, memory, pool, launched, is_over, count, end_date,
                   calc, runVars, statusVars, released>>

\* end: self.join(), then the last sleep, and end returns
end_join_self ==
    /\ upc = "end_join_self"
    /\ rpc \in {"done", "raised"}
    /\ upc' = "ended"
    /\ UNCHANGED <<auxVars, kind, caller, init_memory, memory, pool, launched, is_over, count, end_date,
                   calc, eidx, runVars, statusVars, released>>

\* end(now=True): if not self.pool, the message 'Cannot end pool - Threads
\* are still awaiting' is printed; in either case nothing else is done and
\* the call returns
end_now ==
    /\ upc = "started"
    /\ upc' = IF pool = <<>> THEN "end_printed" ELSE "end_silent"
    /\ UNCHANGED <<auxVars, kind, caller, init_memory, memory, pool, launched, is_over, count,
                   end_date, calc, eidx, runVars, statusVars, released>>

\* DynamicPool.submit, called after end() has returned
submit_ended(c, pre, post) ==
    /\ kind = "dynamic"
    /\ upc = "ended"
    /\ count <= caller.jobs
    /\ c \in caller.costs
    /\ pre \in caller.actions
    /\ post \in caller.actions
    /\ Submitting(c, pre, post)
    /\ UNCHANGED <<shown, gatewayVars, emptyVars, kind, caller, init_memory, memory, launched, is_over,
                   end_date, userVars, runVars, statusVars, released>>

\* (mutant) a status call that takes the pending jobs out of the queue it counts
display_status_draining ==
    /\ upc # "start"
    /\ shown' = Snapshot
    /\ pool' = <<>>
    /\ UNCHANGED <<order, gatewayVars, emptyVars, kind, caller, init_memory, memory, launched, is_over,
                   count, end_date, calc, userVars, runVars, statusVars, released>>

\* display_status (and ServerPool.status, emit_status): reads runnings, pool,
\* deads, init_memory and memory, and prints them
display_status ==
    /\ upc # "start"
    /\ shown' = Snapshot
    /\ UNCHANGED <<order, gatewayVars, emptyVars, kind, caller, init_memory, memory, pool, launched,
                   is_over, count, end_date, calc, userVars, runVars, statusVars, released>>

\* --------------------------------------------------------- the pool thread
\* run: self.status = self.check_status()
run_begin ==
    /\ rpc = "run"
    /\ rpc' = "while"
    /\ spc' = "while"
    /\ UNCHANGED <<auxVars, kind, caller, init_memory, memory, pool, launched, is_over, count, end_date,
                   calc, userVars, ridx, rcur, rtmp, seen, sidx, scur, stmp, released>>

\* run: while not self.is_over -- and the iterator of for calc in self.pool
run_while ==
    /\ rpc = "while"
    /\ IF is_over THEN rpc' = "done" ELSE rpc' = "for_pool"
    /\ ridx' = 0
    /\ seen' = {}
    /\ UNCHANGED <<auxVars, kind, caller, init_memory, memory, pool, launched, is_over, count, end_date,
                   calc, userVars, rcur, rtmp, statusVars, released>>

\* the list that the iterator of for calc in self.pool holds: self.pool, or
\* the list that self.pool was bound to when the loop began
IterPool == IF stale THEN oldpool ELSE pool

\* run: one turn of for calc in self.pool -- the list iterator hands out the
\* element at its position in the list as it is now, and the if/elif/else
run_for_pool ==
    /\ rpc = "for_pool"
    /\ IF ridx < Len(IterPool)
       THEN LET j == IterPool[ridx + 1] IN
            /\ ridx' = ridx + 1
            /\ UNCHANGED <<stale, oldpool>>
            /\ seen' = seen \cup {j}
            /\ IF CanAdmit(j)
               THEN rpc' = "allocate" /\ rcur' = j /\ calc' = calc
               ELSE /\ rpc' = rpc
                    /\ rcur' = 0
                    /\ IF ~calc[j].ispreprocessed
                       THEN calc' = [calc EXCEPT ![j].pre_flight = TRUE]
                       ELSE calc' = calc
       ELSE /\ rpc' = "for_launched"
            /\ ridx' = 0
            /\ seen' = {}
            /\ stale' = FALSE
            /\ oldpool' = <<>>
            /\ UNCHANGED <<rcur, calc>>
    /\ UNCHANGED <<order, shown, gatewayVars, discarded, kind, caller, init_memory, memory, pool,
                   launched, is_over, count, end_date, userVars, rtmp, statusVars, released>>

\* __allocate__: self.memory += -calc.cost, the load
allocate_load ==
    /\ rpc = "allocate"
    /\ rtmp' = memory
    /\ rpc' = "allocate_store"
    /\ UNCHANGED <<auxVars, kind, caller, init_memory, memory, pool, launched, is_over, count, end_date,
                   calc, userVars, ridx, rcur, seen, statusVars, released>>

\* __allocate__: self.memory += -calc.cost, the store
allocate_store ==
    /\ rpc = "allocate_store"
    /\ memory' = Allocate(rtmp, calc[rcur].cost)
    /\ rtmp' = 0
    /\ rpc' = "append"
    /\ UNCHANGED <<auxVars, kind, caller, init_memory, pool, launched, is_over, count, end_date,
                   calc, userVars, ridx, rcur, seen, statusVars, released>>

\* run: self.launched.append(calc)
run_append ==
    /\ rpc = "append"
    /\ launched' = Append(launched, rcur)
    /\ rpc' = "remove"
    /\ UNCHANGED <<auxVars, kind, caller, init_memory, memory, pool, is_over, count, end_date,
                   calc, userVars, ridx, rcur, rtmp, seen, statusVars, released>>

\* run: self.pool.remove(calc) -- ValueError when calc is not in self.pool
run_remove ==
    /\ rpc = "remove"
    /\ IF InSeq(pool, rcur)
       THEN pool' = Remove(pool, rcur) /\ rpc' = "start"
       ELSE pool' = pool /\ rpc' = "raised"
    /\ UNCHANGED <<auxVars, kind, caller, init_memory, memory, launched, is_over, count, end_date,
                   calc, userVars, ridx, rcur, rtmp, seen, statusVars, released>>

\* Calculation.start: self.thread.start()
start_thread ==
    /\ rpc = "start"
    /\ calc' = [calc EXCEPT ![launched[Len(launched)]].thread = "alive"]
    /\ rpc' = "isrunning"
    /\ UNCHANGED <<auxVars, kind, caller, init_memory, memory, pool, launched, is_over, count, end_date,
                   userVars, ridx, rcur, rtmp, seen, statusVars, released>>

\* Calculation.start: self.isrunning = True
start_isrunning ==
    /\ rpc = "isrunning"
    /\ calc' = [calc EXCEPT ![launched[Len(launched)]].isrunning = TRUE]
    /\ rpc' = "for_pool"
    /\ rcur' = 0
    /\ UNCHANGED <<auxVars, kind, caller, init_memory, memory, pool, launched, is_over, count, end_date,
                   userVars, ridx, rtmp, seen, statusVars, released>>

\* run: one turn of for calc in self.launched
run_for_launched ==
    /\ rpc = "for_launched"
    /\ IF ridx < Len(launched)
       THEN LET j == launched[ridx + 1] IN
            /\ ridx' = ridx + 1
            /\ rpc' = rpc
            /\ IF NeedsPost(j)
               THEN calc' = [calc EXCEPT ![j].post_flight = TRUE]
               ELSE calc' = calc
       ELSE /\ rpc' = "while"
            /\ ridx' = 0
            /\ calc' = calc
    /\ UNCHANGED <<auxVars, kind, caller, init_memory, memory, pool, launched, is_over, count, end_date,
                   userVars, rcur, rtmp, seen, statusVars, released>>

\* ------------------------------------------------------ the other threads
\* a job's thread returns from its target
job_finish(j) ==
    /\ calc[j].thread = "alive"
    /\ calc' = [calc EXCEPT ![j].thread = "finished"]
    /\ UNCHANGED <<auxVars, kind, caller, init_memory, memory, pool, launched, is_over, count, end_date,
                   userVars, runVars, statusVars, released>>

\* launch_pre_processing: the action (if any) has returned; self.ispreprocessed = True
pre_done(j) ==
    /\ calc[j].pre_flight
    /\ calc' = [calc EXCEPT ![j].pre_flight = FALSE, ![j].ispreprocessed = TRUE]
    /\ UNCHANGED <<auxVars, kind, caller, init_memory, memory, pool, launched, is_over, count, end_date,
                   userVars, runVars, statusVars, released>>

\* launch_post_processing: the action (if any) has returned; self.ispostprocessed = True
post_done(j) ==
    /\ calc[j].post_flight
    /\ calc' = [calc EXCEPT ![j].post_flight = FALSE, ![j].ispostprocessed = TRUE]
    /\ UNCHANGED <<auxVars, kind, caller, init_memory, memory, pool, launched, is_over, count, end_date,
                   userVars, runVars, statusVars, released>>

\* ------------------------------------------------- the check_status thread
\* check_status: while not self.is_over, and on leaving the loop self.end_date = now
status_while ==
    /\ spc = "while"
    /\ IF is_over
       THEN spc' = "done" /\ end_date' = TRUE
       ELSE spc' = "for" /\ end_date' = end_date
    /\ sidx' = 0
    /\ UNCHANGED <<auxVars, kind, caller, init_memory, memory, pool, launched, is_over, count,
                   calc, userVars, runVars, scur, stmp, released>>

\* check_status: one turn of for calc in self.launched, and the if/elif/else
status_for ==
    /\ spc = "for"
    /\ IF sidx < Len(launched)
       THEN LET j == launched[sidx + 1] IN
            /\ sidx' = sidx + 1
            /\ IF IsFinished(j)
               THEN spc' = "release" /\ scur' = j /\ is_over' = is_over
               ELSE /\ spc' = spc
                    /\ scur' = 0
                    /\ is_over' = IF kind = "static" /\ BatchDone THEN TRUE ELSE is_over
       ELSE /\ spc' = "while"
            /\ sidx' = 0
            /\ UNCHANGED <<scur, is_over>>
    /\ UNCHANGED <<auxVars, kind, caller, init_memory, memory, pool, launched, count, end_date,
                   calc, userVars, runVars, stmp, released>>

\* __release__: self.memory += calc.cost, the load
release_load ==
    /\ spc = "release"
    /\ stmp' = memory
    /\ spc' = "release_store"
    /\ UNCHANGED <<auxVars, kind, caller, init_memory, memory, pool, launched, is_over, count, end_date,
                   calc, userVars, runVars, sidx, scur, released>>

\* __release__: self.memory += calc.cost, the store
release_store ==
    /\ spc = "release_store"
    /\ memory' = Release(stmp, calc[scur].cost)
    /\ released' = [released EXCEPT ![scur] = Min(@ + 1, 2)]
    /\ stmp' = 0
    /\ spc' = "flags"
    /\ UNCHANGED <<auxVars, kind, caller, init_memory, pool, launched, is_over, count, end_date,
                   calc, userVars, runVars, sidx, scur>>

\* check_status: calc.isrunning = False; calc.isdead = True; calc.counted = True
status_flags ==
    /\ spc = "flags"
    /\ calc' = [calc EXCEPT ![scur].isrunning = FALSE, ![scur].isdead = TRUE,
                            ![scur].counted = TRUE]
    /\ spc' = "for"
    /\ scur' = 0
    /\ UNCHANGED <<auxVars, kind, caller, init_memory, memory, pool, launched, is_over, count, end_date,
                   userVars, runVars, sidx, stmp, released>>

\* ---------------------------------------------- ServerPool, the gateway
\* A descriptor line is a sequence of tokens; the token "!@!" is the
\* delimiter, the token "\\" a backslash.
Delim == "!@!"
Backslash == "\\"

\* the lines that peers send: a path and a cost; target, cost, pre- and
\* post-arguments; three fields; a cost that is not an integer
Descriptors ==
    { <<"C:", Backslash, "job.py", Delim, "3">>,
      <<"myjob", Delim, "8", Delim, "pre", Delim, "post">>,
      <<"myjob", Delim, "3", Delim, "pre">>,
      <<"myjob", Delim, "x">> }

\* TCPHandler.handle: str(self.data)[2:-1] -- the repr of the bytes without
\* its b' and ': every backslash is written twice
RECURSIVE Escape(_)
Escape(s) ==
    IF s = <<>> THEN <<>>
    ELSE IF Head(s) = Backslash THEN <<Backslash, Backslash>> \o Escape(Tail(s))
    ELSE <<Head(s)>> \o Escape(Tail(s))

\* str.split('!@!'): the fields between the delimiters
RECURSIVE Split(_)
Split(s) ==
    IF \E i \in 1..Len(s) : s[i] = Delim
    THEN LET i == CHOOSE n \in 1..Len(s) :
                      s[n] = Delim /\ \A m \in 1..(n - 1) : s[m] # Delim
         IN <<SubSeq(s, 1, i - 1)>> \o Split(SubSeq(s, i + 1, Len(s)))
    ELSE <<s>>

\* int(args[1]): the value of a field of digits; ValueError on any other
IsInt(f) == f \in {<<"3">>, <<"8">>}
ToInt(f) == IF f = <<"3">> THEN 3 ELSE 8

\* ServerPool.__init__ and start(): a DynamicPool built with external=True,
\* and the gateway thread not yet started
InitServer ==
    /\ kind = "dynamic"
    /\ caller = NoJobs
    /\ init_memory = 20
    /\ pool = <<>>
    /\ count = 1
    /\ order = <<>>
    /\ gpc = "new"
    /\ calc = [j \in Ids |-> NoCalc]
    /\ InitCommon

\* ServerPool.start(), after the constructor has started the pool: run begins
\* in its own thread and starts the server
gateway_start ==
    /\ gpc = "new"
    /\ upc = "started"
    /\ gpc' = "while"
    /\ UNCHANGED <<emptyVars, order, shown, data, gidx, kind, caller, init_memory, memory, pool, launched,
                   is_over, count, end_date, calc, userVars, runVars, statusVars, released>>

\* TCPHandler.handle: one connection is read and its line buffered,
\* unprocessed; the server accepts connections until stop() shuts it down
handle(d) ==
    /\ gpc \notin {"off", "new"}
    /\ upc = "started"
    /\ Len(data) < MaxLines
    /\ data' = Append(data, [line |-> Escape(d), processed |-> FALSE])
    /\ UNCHANGED <<emptyVars, order, shown, gpc, gidx, kind, caller, init_memory, memory, pool, launched,
                   is_over, count, end_date, calc, userVars, runVars, statusVars, released>>

\* ServerPool.run: while not self.pool.is_over -- and the iterator of
\* for element in self.server.data
gateway_while ==
    /\ gpc = "while"
    /\ IF is_over THEN gpc' = "done" ELSE gpc' = "for"
    /\ gidx' = 0
    /\ UNCHANGED <<emptyVars, order, shown, data, kind, caller, init_memory, memory, pool, launched,
                   is_over, count, end_date, calc, userVars, runVars, statusVars, released>>

\* ServerPool.run: one turn of for element in self.server.data -- a processed
\* element is passed over; otherwise its line is split, a line of 2 or 4
\* fields is submitted with int(args[1]) as its cost (ValueError ends the
\* thread), and the element is flagged processed
gateway_for ==
    /\ gpc = "for"
    /\ IF gidx < Len(data)
       THEN LET element == data[gidx + 1]
                args == Split(element.line)
            IN IF element.processed
               THEN /\ gidx' = gidx + 1
                    /\ UNCHANGED <<gpc, data, calc, pool, order, count>>
               ELSE IF Len(args) \in {2, 4} /\ ~IsInt(args[2])
               THEN /\ gpc' = "raised"
                    /\ UNCHANGED <<gidx, data, calc, pool, order, count>>
               ELSE /\ gidx' = gidx + 1
                    /\ gpc' = gpc
                    /\ data' = [data EXCEPT ![gidx + 1].processed = TRUE]
                    /\ IF Len(args) = 2
                       THEN Submitting(ToInt(args[2]), FALSE, FALSE)
                       ELSE IF Len(args) = 4
                       THEN Submitting(ToInt(args[2]), TRUE, TRUE)
                       ELSE UNCHANGED <<calc, pool, order, count>>
       ELSE /\ gpc' = "while"
            /\ gidx' = 0
            /\ UNCHANGED <<data, calc, pool, order, count>>
    /\ UNCHANGED <<emptyVars, shown, kind, caller, init_memory, memory, launched, is_over, end_date,
                   userVars, runVars, statusVars, released>>

\* DynamicPool.empty, called between start() and end(): self.pool = [] binds
\* self.pool to a new list; a for-loop of run that is under way keeps the
\* iterator of the list it began with
Iterating == rpc \in {"for_pool", "allocate", "allocate_store", "append", "remove",
                      "start", "isrunning"}

empty ==
    /\ kind = "dynamic"
    /\ upc = "started"
    /\ pool' = <<>>
    /\ discarded' = discarded \cup {j \in Ids : InSeq(pool, j)}
    /\ IF Iterating /\ ~stale
       THEN stale' = TRUE /\ oldpool' = pool
       ELSE UNCHANGED <<stale, oldpool>>
    /\ UNCHANGED <<order, shown, gatewayVars, kind, caller, init_memory, memory, launched,
                   is_over, count, end_date, calc, userVars, runVars, statusVars, released>>

\* ------------------------------------------------------------------ Next
Threads ==
    \/ Start
    \/ end_call
    \/ end_while
    \/ end_is_over
    \/ end_join
    \/ end_join_self
    \/ run_begin
    \/ run_while
    \/ run_for_pool
    \/ allocate_load
    \/ allocate_store
    \/ run_append
    \/ run_remove
    \/ start_thread
    \/ start_isrunning
    \/ run_for_launched
    \/ \E j \in Ids : job_finish(j)
    \/ \E j \in Ids : pre_done(j)
    \/ \E j \in Ids : post_done(j)
    \/ status_while
    \/ status_for
    \/ release_load
    \/ release_store
    \/ status_flags

Next ==
    \/ Threads
    \/ \E c \in DynCosts, a \in BOOLEAN : submit(c, a, a)

\* an open pool (start, any submits, end) or a closed pool (start, end)
Spec == Init /\ [][Next]_vars

\* an open pool given three plain jobs of cost 8
SpecThreeJobs == InitThreeJobs /\ [][Next]_vars

\* the pools of three jobs: the open one and the closed one
SpecOfThree == (InitThreeJobs \/ InitBatchOfThree) /\ [][Next]_vars

\* the caller also forces the end, or submits again after end() has returned
NextCalls ==
    \/ Next
    \/ end_now
    \/ \E c \in DynCosts, a \in BOOLEAN : submit_ended(c, a, a)

SpecCalls == Init /\ [][NextCalls]_vars

\* the caller also empties the pool while it works
NextEmpty ==
    \/ Next
    \/ empty

SpecEmpty == Init /\ [][NextEmpty]_vars

\* the pool's status is displayed while it works
NextStatus ==
    \/ Next
    \/ display_status

SpecStatus == Init /\ [][NextStatus]_vars

\* the steps of the gateway thread
GatewaySteps == gateway_start \/ gateway_while \/ gateway_for

\* the steps of the jobs' threads and of their pre- and post-processing
JobSteps ==
    \/ \E j \in Ids : job_finish(j)
    \/ \E j \in Ids : pre_done(j)
    \/ \E j \in Ids : post_done(j)

\* the steps of the pool thread, of the check_status thread and of the caller
RunSteps ==
    \/ run_begin \/ run_while \/ run_for_pool \/ allocate_load \/ allocate_store
    \/ run_append \/ run_remove \/ start_thread \/ start_isrunning \/ run_for_launched

StatusSteps ==
    status_while \/ status_for \/ release_load \/ release_store \/ status_flags

CallerSteps ==
    Start \/ end_call \/ end_while \/ end_is_over \/ end_join \/ end_join_self

\* a closed pool with a batch of three: start, end
SpecBatchOfThree == InitBatchOfThree /\ [][Threads]_vars

\* every thread that can take a step eventually takes one; every target and
\* every pre- and post-processing action returns
Fairness ==
    /\ WF_vars(RunSteps)
    /\ WF_vars(StatusSteps)
    /\ WF_vars(CallerSteps)
    /\ \A j \in Ids :
          WF_vars(job_finish(j)) /\ WF_vars(pre_done(j)) /\ WF_vars(post_done(j))

FairBatchOfThree == SpecBatchOfThree /\ Fairness

\* the steps of end() once it has been called
EndSteps == end_while \/ end_is_over \/ end_join \/ end_join_self

\* fair scheduling of the threads of a pool whose caller starts it and is
\* free to call end() or not
ThreadFairness ==
    /\ WF_vars(Start)
    /\ WF_vars(EndSteps)
    /\ WF_vars(RunSteps)
    /\ WF_vars(StatusSteps)
    /\ \A j \in Ids :
          WF_vars(job_finish(j)) /\ WF_vars(pre_done(j)) /\ WF_vars(post_done(j))

\* a closed pool (a batch of up to MaxBatch, or of three) under fair
\* scheduling of its threads
InitClosedPool == InitBatchOfThree \/ \E n \in 0..MaxBatch : InitStatic(n)
FairClosedPool == InitClosedPool /\ [][Threads]_vars /\ ThreadFairness

\* a ServerPool: its pool is started, the gateway receives lines and submits
\* them, and stop() calls end(now=True)
NextServer ==
    \/ Start
    \/ end_now
    \/ RunSteps
    \/ StatusSteps
    \/ JobSteps
    \/ GatewaySteps
    \/ \E d \in Descriptors : handle(d)

SpecServer == InitServer /\ [][NextServer]_vars

\* the ServerPool under fair scheduling of its threads
FairServer ==
    /\ SpecServer
    /\ WF_vars(Start)
    /\ WF_vars(GatewaySteps)
    /\ WF_vars(RunSteps)
    /\ WF_vars(StatusSteps)
    /\ \A j \in Ids :
          WF_vars(job_finish(j)) /\ WF_vars(pre_done(j)) /\ WF_vars(post_done(j))

\* the open pool of 20 units under fair scheduling: start, submits, end
FairOpenPool == InitOpenPool /\ [][Next]_vars /\ Fairness

\* ---------------------------------------------------------------- claims
\* the jobs submitted so far (DynamicPool counts from 1, StaticPool from 0)
Submitted == IF kind = "dynamic" THEN 1..(count - 1) ELSE 1..count

\* the jobs whose thread is executing
Executing == {j \in Ids : is_alive(j)}

RECURSIVE CostOf(_)
CostOf(S) ==
    IF S = {} THEN 0
    ELSE LET j == CHOOSE x \in S : TRUE IN calc[j].cost + CostOf(S \ {j})

\* position of job j in the sequence s (0 when absent)
Pos(s, j) == IF InSeq(s, j) THEN CHOOSE i \in 1..Len(s) : s[i] = j ELSE 0

\* C1: in every reachable state 0 <= memory <= init_memory.
C1_MemoryInBounds == 0 <= memory /\ memory <= init_memory

\* C2 (as claimed): for every job, the number of releases of its cost is 1
\* when counted is true and 0 otherwise.
C2_ReleasedIffCounted ==
    \A j \in Ids : released[j] = (IF calc[j].counted THEN 1 ELSE 0)

\* C2 (amended): no job's cost is released twice, a counted job has had
\* exactly one release, and a job that is not counted has had none, except
\* while check_status is between its release and setting its flags.
C2_ReleasedOnce ==
    \A j \in Ids :
        /\ released[j] <= 1
        /\ calc[j].counted => released[j] = 1
        /\ (~calc[j].counted /\ released[j] = 1) => (spc = "flags" /\ scur = j)

\* C2 witness: a counted job, released once, that the monitor is about to
\* examine again on a later turn of its loop, its thread still not alive.
C2_Witness ==
    /\ spc = "for"
    /\ sidx < Len(launched)
    /\ LET j == launched[sidx + 1] IN
          calc[j].counted /\ released[j] = 1 /\ ~is_alive(j) /\ calc[j].ispostprocessed

\* C3: the costs of the jobs whose execution is underway sum to at most the
\* pool's total budget.
C3_ExecutingWithinBudget == CostOf(Executing) <= init_memory

\* C4: whenever run admits a job, memory exceeded the job's cost when the
\* job was chosen, and still does when __allocate__ loads it; a job examined
\* while memory equals its cost is therefore left pending.
C4_AdmitStrict ==
    /\ rpc = "allocate" => memory > calc[rcur].cost
    /\ rpc = "allocate_store" => (rtmp > calc[rcur].cost /\ memory > calc[rcur].cost)

\* C4 witness: the scan has examined a preprocessed pending job whose cost
\* equals memory and moved on, the job still pending.
C4_Witness ==
    /\ rpc = "for_pool"
    /\ ridx > 0
    /\ ridx <= Len(pool)
    /\ LET j == pool[ridx] IN
          j \in seen /\ calc[j].ispreprocessed /\ memory = calc[j].cost

\* C5: when run admits a job B, every job A ahead of B in the pending queue
\* that fits (preprocessed, memory above its cost) has been examined by this
\* scan, so B overtakes A only if A did not fit when the scan reached it.
C5_FifoWithinBudget ==
    [][(rpc = "for_pool" /\ rpc' = "allocate") =>
          \A a \in Ids :
              (/\ InSeq(pool, a)
               /\ Pos(pool, a) < Pos(pool, rcur')
               /\ calc[a].ispreprocessed
               /\ memory > calc[a].cost) => a \in seen]_vars

\* C6: an open pool of 20 given three jobs of cost 8 never has more than 2 of
\* them executing at once (the part of the claim a finite run can refute).
C6_AtMostTwoExecuting ==
    (kind = "dynamic" /\ caller = ThreeJobs /\ init_memory = 20)
        => Cardinality(Executing) <= 2

\* the closed pool of the scenario: a batch of three jobs of cost 5
BatchOfThreeFives ==
    kind = "static" /\ count = 3 /\ \A j \in 1..3 : calc[j].cost = 5

\* every job of the batch has reached Complete
BatchComplete ==
    \A j \in 1..count :
        calc[j].isdead /\ calc[j].counted /\ calc[j].ispostprocessed

\* C7 (as claimed): the closed pool of three jobs of cost 5 with a budget of
\* 5 never has two jobs executing, and it eventually terminates with all
\* three jobs Complete.
C7_OneAtATimeThenOver ==
    (BatchOfThreeFives /\ init_memory = 5)
        => ([](Cardinality(Executing) <= 1) /\ <>(is_over /\ BatchComplete))

\* C7 (amended): with a budget of 5 the closed pool of three jobs of cost 5
\* admits no job (5 > 5 is false): nothing is launched, nothing executes and
\* the pool never terminates; with a budget of 6 its jobs execute strictly
\* one at a time.
C7_ClosedPoolOfFives ==
    /\ (BatchOfThreeFives /\ init_memory = 5)
          => (launched = <<>> /\ Executing = {} /\ Len(pool) = 3 /\ ~is_over)
    /\ (BatchOfThreeFives /\ init_memory = 6) => Cardinality(Executing) <= 1

\* C7 witness: budget 5, every job of the batch preprocessed, and the scan
\* of the pending queue has just passed over the last of them.
C7_Witness ==
    /\ BatchOfThreeFives /\ init_memory = 5
    /\ \A j \in 1..3 : calc[j].ispreprocessed /\ ~calc[j].pre_flight
    /\ rpc = "for_pool" /\ ridx = 3 /\ seen = {1, 2, 3}
    /\ upc = "end_while"

\* C8: once end() has returned, every submitted job is dead and postprocessed.
C8_AllCompleteAfterEnd ==
    upc = "ended" =>
        \A j \in Submitted : calc[j].isdead /\ calc[j].ispostprocessed

\* C9: end(now=False) sets is_over only when the pending queue is empty, no
\* job is running and every launched job has been counted.
C9_EndSetsOverWhenDrained ==
    [][(upc = "end_is_over" /\ is_over') =>
          (/\ pool = <<>>
           /\ runnings = {}
           /\ \A i \in 1..Len(launched) : calc[launched[i]].counted)]_vars

\* C10: when end(now=False) has returned, run and check_status have exited,
\* end_date is stamped and every launched job's thread has finished.
C10_AllFinishedAfterEnd ==
    upc = "ended" =>
        /\ rpc = "done"
        /\ spc = "done"
        /\ end_date
        /\ \A i \in 1..Len(launched) : calc[launched[i]].thread = "finished"

\* C11: end(now=True) called while jobs are pending reports an error, leaves
\* is_over false and leaves the pending queue, the launched list and the
\* ledger as they were.
C11_ForceEndRefused ==
    [][(upc = "started" /\ upc' \in {"end_printed", "end_silent"} /\ pool # <<>>) =>
          (/\ upc' = "end_printed"
           /\ ~is_over'
           /\ UNCHANGED <<pool, launched, memory>>)]_vars

\* C12: end(now=True) called when the pending queue is empty reports no
\* error and sets is_over.
C12_ForceEndTerminates ==
    [][(upc = "started" /\ upc' \in {"end_printed", "end_silent"} /\ pool = <<>>) =>
          (upc' = "end_silent" /\ is_over')]_vars

\* C13: under fair scheduling, the end() of an open pool whose jobs all cost
\* less than the budget eventually comes back to its caller (stated here for
\* either way of coming back: returning, or raising).
C13_EndReturns == <>(upc \in {"ended", "end_raised"})

\* the closed pool's jobs each cost strictly less than the budget
BatchFits == kind = "static" /\ \A j \in 1..count : calc[j].cost < init_memory

C15_SelfTerminatesWhenComplete ==
    [][(kind = "static" /\ ~is_over /\ is_over' /\ upc' = upc) =>
          (/\ pool = <<>>
           /\ runnings = {}
           /\ Cardinality(deads) = count
           /\ BatchComplete)]_vars

\* C16: the ids of a pool's jobs are strictly increasing in the order of
\* submission, so no two jobs share an id.
C16_IdsIncrease ==
    \A i \in 1..Len(order) : \A k \in 1..Len(order) :
        i < k => order[i] < order[k]

\* C16 witness: three jobs have been submitted to an open pool.
C16_Witness == kind = "dynamic" /\ Len(order) = 3 /\ count = 4

\* C17: no job is pending in a pool whose is_over flag is set.
C17_NoPendingWhenOver == is_over => pool = <<>>

\* C18: a display_status call leaves the pending queue, the launched list,
\* the ledger and every job's flags as they were.
C18_StatusReadOnly ==
    [][shown' # shown => UNCHANGED <<pool, launched, memory, init_memory, calc>>]_vars

\* C18 witness: the status was displayed while one job was running and
\* another was pending, and both still are.
C18_Witness ==
    /\ shown.running = 1 /\ shown.queue = 1
    /\ Cardinality(runnings) = 1 /\ Len(pool) = 1

\* a line of 2 or 4 fields whose cost field is an integer
WellFormed(l) == Len(Split(l)) \in {2, 4} /\ IsInt(Split(l)[2])

\* the lines of the buffer that are flagged processed and well-formed, in order
RECURSIVE Accepted(_)
Accepted(d) ==
    IF d = <<>> THEN <<>>
    ELSE IF Head(d).processed /\ WellFormed(Head(d).line)
         THEN <<Head(d).line>> \o Accepted(Tail(d))
         ELSE Accepted(Tail(d))

\* the gateway's jobs are, in order, the processed well-formed lines: one job
\* each, with the line's cost and the target RawExternalCmd
JobsMatchLines ==
    /\ Len(order) = Len(Accepted(data))
    /\ \A k \in 1..Len(order) :
          /\ calc[order[k]].cost = ToInt(Split(Accepted(data)[k])[2])
          /\ calc[order[k]].target = "RawExternalCmd"

\* C19: every well-formed line the gateway receives is eventually flagged
\* processed, and the jobs of the backing pool are exactly the processed
\* well-formed lines, one job each with the line's cost and the external
\* target.
C19_OneJobPerLine ==
    /\ [](gpc # "off" => JobsMatchLines)
    /\ \A k \in 1..MaxLines :
          []((Len(data) >= k /\ WellFormed(data[k].line))
                 => <>(Len(data) >= k /\ data[k].processed))

\* C20: the gateway thread never ends on an exception, and a line that
\* fails to decode is flagged processed without a job being added.
C20_GatewayNeverCrashes ==
    gpc # "off" =>
        /\ gpc # "raised"
        /\ \A k \in 1..Len(data) :
              (data[k].processed /\ ~WellFormed(data[k].line)) =>
                  Len(order) = Len(Accepted(data))

\* C21: check_status takes a launched job for finished (and goes on to
\* release it and flag it dead and counted) only when the job's thread has
\* been started and has finished.
C21_ReleasedAfterExecution ==
    [][(spc = "for" /\ spc' = "release") => calc[scur'].thread = "finished"]_vars

\* run's scan of self.pool takes its turn on job j
Examines(j) ==
    /\ rpc = "for_pool"
    /\ ridx < Len(IterPool)
    /\ IterPool[ridx + 1] = j
    /\ ridx' = ridx + 1

\* run's scan of self.launched takes its turn on job j
Revisits(j) ==
    /\ rpc = "for_launched"
    /\ ridx < Len(launched)
    /\ launched[ridx + 1] = j
    /\ ridx' = ridx + 1

\* C22: run starts the pre-processing action of a job only if it is not
\* already in flight.
C22_PreStartedOnce ==
    [][\A j \in Ids :
          (Examines(j) /\ calc[j].pre_processing /\ ~calc[j].ispreprocessed)
              => ~calc[j].pre_flight]_vars

\* C23: a job without a pre-processing action that the scan examines while
\* memory exceeds its cost is admitted by that turn of the scan.
C23_NoPreActionAdmitted ==
    [][\A j \in Ids :
          (/\ Examines(j)
           /\ ~calc[j].pre_processing
           /\ ~calc[j].isrunning /\ ~calc[j].isdead
           /\ memory > calc[j].cost) => rpc' = "allocate"]_vars

\* C24: a job's thread is started only when the job is preprocessed, and its
\* post-processing is started only when its thread has finished and its
\* cost has been released.
C24_ActionsAroundExecution ==
    [][\A j \in Ids :
          /\ (calc[j].thread = "new" /\ calc'[j].thread = "alive")
                => calc[j].ispreprocessed
          /\ (Revisits(j) /\ NeedsPost(j))
                => (calc[j].thread = "finished" /\ released[j] >= 1)]_vars

\* C25: a job is never both running and dead, a counted job is dead and not
\* running, and a job in the pending queue is neither running, dead nor
\* counted.
C25_FlagsConsistent ==
    \A j \in Ids :
        /\ ~(calc[j].isrunning /\ calc[j].isdead)
        /\ calc[j].counted => (calc[j].isdead /\ ~calc[j].isrunning)
        /\ InSeq(pool, j) =>
              (~calc[j].isrunning /\ ~calc[j].isdead /\ ~calc[j].counted)

\* the jobs whose cost the ledger holds: the launched jobs that are not
\* counted (but for the one check_status has released and is about to flag),
\* and the job run has charged and is about to append
Reserved ==
    ({j \in Ids : InSeq(launched, j) /\ ~calc[j].counted}
        \ (IF spc = "flags" THEN {scur} ELSE {}))
    \cup (IF rpc = "append" THEN {rcur} ELSE {})

\* C26: memory is init_memory less the costs of the jobs that are launched
\* and not counted (stated here with the two windows inside an admission
\* and inside a release allowed for).
C26_LedgerConservation == memory = init_memory - CostOf(Reserved)

\* C27: whenever display_status reads the pool, every submitted job is in
\* exactly one of self.pool and self.launched.
C27_JobConservation ==
    [][shown' # shown =>
          \A j \in Submitted : InSeq(pool, j) # InSeq(launched, j)]_vars

\* C28: run starts the post-processing action of a job only if it is not
\* already in flight.
C28_PostStartedOnce ==
    [][\A j \in Ids :
          (Revisits(j) /\ calc[j].post_processing /\ NeedsPost(j))
              => ~calc[j].post_flight]_vars

\* C29: a started closed pool with an empty batch eventually sets is_over.
C29_EmptyBatchTerminates == (kind = "static" /\ count = 0) => <>is_over


\* C30: once empty() has returned, no job that was pending is admitted by run,
\* charged to the ledger or executed, and run is not ended by an exception.
C30_EmptyDiscards ==
    [][/\ rpc' # "raised"
       /\ \A j \in discarded :
             /\ ~(Examines(j) /\ rpc' = "allocate")
             /\ ~(rpc = "allocate_store" /\ rcur = j /\ memory' # memory)
             /\ calc[j].thread = "new" => calc'[j].thread = "new"]_vars

====
